---- MODULE Spec2Model ----
(***************************************************************************)
(* South Lanarkshire waste collection source: the inference of the phase   *)
(* of the 4-week collection cycle and its projection over 52 weeks.        *)
(*                                                                         *)
(* Two programs are modelled: Source of southlanarkshire_gov_uk.py, which  *)
(* resolves the phase from the council's calendar PDF (actions Construct,  *)
(* FetchPage, ParsePdfSchedule, DetermineCyclePosition, Project), and      *)
(* Source of test_southlanarkshire.py, which rotates the template on the   *)
(* bins the page reports for this week (actions SingleConstruct,           *)
(* SingleFetchPage, SingleProject).                                        *)
(*                                                                         *)
(* Texts are TLC strings; dates are proleptic Gregorian ordinals           *)
(* (date.toordinal()), so that date arithmetic is integer arithmetic.      *)
(***************************************************************************)
EXTENDS Integers, Sequences, FiniteSets, TLC

VARIABLES
    pc,                 \* position of the run: new, ready, page, parsed, positioned, returned, failed
    error,              \* the message of the exception that ended the run, or NoError
    web_page,           \* the directory pages received from the council site: none or one
    web_pdf,            \* the calendar PDFs received, each the lines of its text: none or one
    pdf_url,            \* self._pdf_url
    current_week_start, \* fetch: current_week_start
    bins_this_week,     \* fetch: bins_this_week
    collection_day,     \* fetch: collection_day
    pdf_schedule,       \* fetch: pdf_schedule, a dict in insertion order
    cycle_from_pdf,     \* _determine_cycle_position: cycle_from_pdf
    pdf_week_date,      \* _determine_cycle_position: pdf_week_date, the anchor
    closest,            \* _determine_cycle_position: the dates closest took, one for each class appended
    cycle_position,     \* fetch: cycle_position
    current_week_bins,  \* test Source.fetch: current_week_bins
    pattern_cycle,      \* fetch: pattern_cycle
    collections         \* fetch: collections, the list returned

vars == <<pc, error, web_page, web_pdf, pdf_url, current_week_start, bins_this_week,
          collection_day, pdf_schedule, cycle_from_pdf, pdf_week_date, closest, cycle_position,
          current_week_bins, pattern_cycle, collections>>

----------------------------------------------------------------------------
(* Python values *)

None == "None"
NoError == "no error"
Missing == "<argument not passed>"

----------------------------------------------------------------------------
(* str operations *)

CharAt(s, i) == SubSeq(s, i, i)

UpperCase == "ABCDEFGHIJKLMNOPQRSTUVWXYZ"
LowerCase == "abcdefghijklmnopqrstuvwxyz"

\* the lower-case letter of every upper-case letter
LowerOf == [c \in {CharAt(UpperCase, i) : i \in 1..Len(UpperCase)} |->
               CharAt(LowerCase, CHOOSE i \in 1..Len(UpperCase) : CharAt(UpperCase, i) = c)]

\* str.lower() of one character
LowerChar(c) == IF c \in DOMAIN LowerOf THEN LowerOf[c] ELSE c

RECURSIVE Lower(_)
\* str.lower()
Lower(s) == IF s = "" THEN "" ELSE LowerChar(CharAt(s, 1)) \o Lower(SubSeq(s, 2, Len(s)))

\* sub in s
Contains(s, sub) ==
    \E i \in 1..(Len(s) - Len(sub) + 1) : SubSeq(s, i, i + Len(sub) - 1) = sub

\* s.startswith(prefix)
StartsWith(s, prefix) == Len(s) >= Len(prefix) /\ SubSeq(s, 1, Len(prefix)) = prefix

\* s.strip() of blanks
RECURSIVE Strip(_)
Strip(s) ==
    IF s = "" THEN ""
    ELSE IF CharAt(s, 1) = " " THEN Strip(SubSeq(s, 2, Len(s)))
    ELSE IF CharAt(s, Len(s)) = " " THEN Strip(SubSeq(s, 1, Len(s) - 1))
    ELSE s

RECURSIVE FirstBlank(_, _)
\* the place of the first blank of s from place i on, Len(s) + 1 when there is none
FirstBlank(s, i) ==
    IF i > Len(s) \/ CharAt(s, i) = " " THEN i ELSE FirstBlank(s, i + 1)

RECURSIVE FirstWord(_)
\* s.split()[0] for a text that is not blank: the first run of non-blank characters
FirstWord(s) ==
    IF CharAt(s, 1) = " " THEN FirstWord(SubSeq(s, 2, Len(s)))
    ELSE SubSeq(s, 1, FirstBlank(s, 1) - 1)

----------------------------------------------------------------------------
(* datetime.date operations, on ordinals *)

\* date.weekday(): Monday is 0
Weekday(d) == (d + 6) % 7

\* day_map of fetch
DayNames == <<"Monday", "Tuesday", "Wednesday", "Thursday", "Friday", "Saturday", "Sunday">>

day_map(name) == (CHOOSE i \in 1..Len(DayNames) : DayNames[i] = name) - 1

----------------------------------------------------------------------------
(* Module tables of southlanarkshire_gov_uk.py *)

\* dict.get(key, default) of a table given as a set of <<key, value>> pairs
Get(table, key, default) ==
    IF \E kv \in table : kv[1] = key
    THEN (CHOOSE kv \in table : kv[1] = key)[2]
    ELSE default

ICON_MAP ==
    { <<"Black", "mdi:trash-can">>, <<"Green", "mdi:trash-can">>,
      <<"Burgundy", "mdi:leaf">>, <<"Blue", "mdi:file-document-outline">>,
      <<"Light", "mdi:glass-fragile">> }

SORT_ORDER ==
    { <<"Blue", 1>>, <<"Light", 2>>, <<"Burgundy", 3>>, <<"Black", 4>>, <<"Green", 4>> }

\* SORT_ORDER.get(bin_color, 99)
UnknownOrder == 99

\* range(52) of the projection loop
Horizon == 52

\* the window of _determine_cycle_position: back 60 days, forward 180 days
WindowBack == 60
WindowForward == 180

\* range(4) and the 7 days of the run reconstruction of _determine_cycle_position
RunWeeks == 4
CandidateDays == 7

\* the lines read after a date line: range(idx + 1, min(idx + 5, len(lines)))
LookAhead == 5

----------------------------------------------------------------------------
(* The catalog: the three combination classes and the 4-week template *)

black_bins == <<"Black/Green - Non Recyclable Waste">>
blue_burgundy_bins == <<"Blue (paper and card)", "Burgundy - Food and garden">>
grey_burgundy_bins == <<"Light Grey - Glass, cans and plastics", "Burgundy - Food and garden">>

base_pattern == <<black_bins, grey_burgundy_bins, black_bins, blue_burgundy_bins>>

Classes == {"black", "grey+burgundy", "blue+burgundy"}

\* any(kw in str(b).lower() for b in bins_set), for one of the keywords kws
HasAny(bins_set, kws) ==
    \E b \in bins_set : LET lowered == Lower(b) IN \E kw \in kws : Contains(lowered, kw)

\* Fault: grey is tested before blue
Faulty_identify_bin_combination(bins_set) ==
    LET has_black == HasAny(bins_set, {"black", "green"})
        has_blue == HasAny(bins_set, {"blue"})
        has_grey == HasAny(bins_set, {"grey", "gray"})
        has_burgundy == HasAny(bins_set, {"burgundy", "brown"})
    IN  IF has_black THEN "black"
        ELSE IF (has_blue \/ has_grey) /\ has_burgundy
             THEN (IF has_grey THEN "grey+burgundy" ELSE "blue+burgundy")
             ELSE "black"

\* Source._identify_bin_combination
_identify_bin_combination(bins_set) ==
    LET has_black == HasAny(bins_set, {"black", "green"})
        has_blue == HasAny(bins_set, {"blue"})
        has_grey == HasAny(bins_set, {"grey", "gray"})
        has_burgundy == HasAny(bins_set, {"burgundy", "brown"})
    IN  IF has_black THEN "black"
        ELSE IF (has_blue \/ has_grey) /\ has_burgundy
             THEN (IF has_blue THEN "blue+burgundy" ELSE "grey+burgundy")
             ELSE "black"

\* Fault: the pattern is not rotated
Faulty_get_pattern_from_cycle_position(position) == base_pattern

\* Source._get_pattern_from_cycle_position: base_pattern[position:] + base_pattern[:position]
_get_pattern_from_cycle_position(position) ==
    SubSeq(base_pattern, position + 1, Len(base_pattern)) \o SubSeq(base_pattern, 1, position)

----------------------------------------------------------------------------
(* The calendar PDF.  A line of its extracted text is a record: kind "date"
   for a line one of the two date patterns matches, with the date that
   strptime gives it in the first year of years_to_try in which it is a valid
   date, and kind "text" for any other line; text is what the keyword search
   reads. *)

DateLine(d) == [kind |-> "date", date |-> d, text |-> DayNames[Weekday(d) + 1]]
TextLine(t) == [kind |-> "text", date |-> 0, text |-> t]

\* A dict in insertion order is a sequence of <<key, value>> pairs with distinct keys.
DictKeys(dict) == [i \in 1..Len(dict) |-> dict[i][1]]
DictHas(dict, key) == \E i \in 1..Len(dict) : dict[i][1] = key
DictGet(dict, key) == dict[CHOOSE i \in 1..Len(dict) : dict[i][1] = key][2]
\* dict[key] = value: a key already present keeps its place
DictSet(dict, key, value) ==
    IF DictHas(dict, key)
    THEN [i \in 1..Len(dict) |-> IF dict[i][1] = key THEN <<key, value>> ELSE dict[i]]
    ELSE Append(dict, <<key, value>>)

Min(a, b) == IF a <= b THEN a ELSE b

\* the set of the elements of a sequence
Range(seq) == {seq[i] : i \in 1..Len(seq)}
Abs(x) == IF x < 0 THEN -x ELSE x

\* the four tests of one line of _identify_bins_from_pdf_lines: the bins it adds
BinsOfLine(line) ==
    LET line_lower == Lower(line)
    IN  (IF Contains(line_lower, "black") \/ Contains(line_lower, "green") THEN {"black"} ELSE {})
        \cup (IF Contains(line_lower, "blue") THEN {"blue"} ELSE {})
        \cup (IF Contains(line_lower, "grey") \/ Contains(line_lower, "gray") THEN {"grey"} ELSE {})
        \cup (IF Contains(line_lower, "burgundy") \/ Contains(line_lower, "brown")
              THEN {"burgundy"} ELSE {})

\* Source._identify_bins_from_pdf_lines; i counts the lines from 1
_identify_bins_from_pdf_lines(lines, i) ==
    LET bins == UNION {BinsOfLine(lines[j].text) :
                        j \in (i + 1)..Min(i + LookAhead - 1, Len(lines))}
    IN  IF bins # {} THEN _identify_bin_combination(bins) ELSE None

RECURSIVE ParseLines(_, _, _)
\* the loop over the lines of _parse_pdf_schedule, from line i on
ParseLines(lines, i, schedule) ==
    IF Len(schedule) >= 0 /\ i > Len(lines) THEN schedule
    ELSE LET bins_for_this_week == _identify_bins_from_pdf_lines(lines, i)
         IN  IF lines[i].kind = "date" /\ bins_for_this_week # None
             THEN ParseLines(lines, i + 1, DictSet(schedule, lines[i].date, bins_for_this_week))
             ELSE ParseLines(lines, i + 1, schedule)

\* Source._parse_pdf_schedule
_parse_pdf_schedule(lines) ==
    IF \A i \in 1..Len(lines) : Strip(lines[i].text) = ""
    THEN <<>>
    ELSE ParseLines(lines, 1, <<>>)

----------------------------------------------------------------------------
(* Source._determine_cycle_position *)

EmptyScheduleError == "PDF schedule is empty - could not parse any dates from PDF"
AnchorNotFoundError == "Could not find current week in PDF schedule"

\* min(seq, key): the first element of seq with the least key
MinIndex(seq, key(_)) ==
    CHOOSE i \in 1..Len(seq) :
        \A j \in 1..Len(seq) : key(seq[i]) < key(seq[j]) \/ (key(seq[i]) = key(seq[j]) /\ i <= j)

\* Fault: no window, every date of the schedule is kept
Faulty_InWindow(current_week_date, schedule) == {schedule[i][1] : i \in 1..Len(schedule)}

\* the dates of the schedule inside the window around the current week
InWindow(current_week_date, schedule) ==
    {d \in {schedule[i][1] : i \in 1..Len(schedule)} :
        current_week_date - WindowBack <= d /\ d <= current_week_date + WindowForward}

\* Fault: of two dates equally near the later one is taken
Faulty_NearestDate(current_week_date, sorted_dates) ==
    CHOOSE d \in sorted_dates :
        \A e \in sorted_dates :
            \/ Abs(d - current_week_date) < Abs(e - current_week_date)
            \/ (Abs(d - current_week_date) = Abs(e - current_week_date) /\ d >= e)

\* min(sorted_dates, key=lambda d: abs(d - current_week_date)): sorted_dates ascends,
\* so of two dates equally near the earlier one is taken
NearestDate(current_week_date, sorted_dates) ==
    CHOOSE d \in sorted_dates :
        \A e \in sorted_dates :
            \/ Abs(d - current_week_date) < Abs(e - current_week_date)
            \/ (Abs(d - current_week_date) = Abs(e - current_week_date) /\ d <= e)

RECURSIVE CycleFromPdf(_, _, _)
\* the loop "for i in range(4)" from its i-th turn on
CycleFromPdf(week_date, schedule, i) ==
    IF i >= RunWeeks THEN <<>>
    ELSE LET check_date == week_date + 7 * i
             all_dates == DictKeys(schedule)
             candidates == SelectSeq(all_dates, LAMBDA d : Abs(d - check_date) <= CandidateDays)
             dist(d) == Abs(d - check_date)
             rest == CycleFromPdf(week_date, schedule, i + 1)
         IN  IF candidates # <<>>
             THEN <<DictGet(schedule, candidates[MinIndex(candidates, dist)])>> \o rest
             ELSE rest

RECURSIVE ClosestDates(_, _, _)
\* the same loop: the dates closest takes, one for each class appended
ClosestDates(week_date, schedule, i) ==
    IF i >= RunWeeks THEN <<>>
    ELSE LET check_date == week_date + 7 * i
             all_dates == DictKeys(schedule)
             candidates == SelectSeq(all_dates, LAMBDA d : Abs(d - check_date) <= CandidateDays)
             dist(d) == Abs(d - check_date)
             rest == ClosestDates(week_date, schedule, i + 1)
         IN  IF candidates # <<>>
             THEN <<candidates[MinIndex(candidates, dist)]>> \o rest
             ELSE rest

\* The branches on (first_type, second_type)
PositionOfPair(first_type, second_type) ==
    IF first_type = "black" /\ second_type = "grey+burgundy" THEN <<0>>
    ELSE IF first_type = "grey+burgundy" /\ second_type = "black" THEN <<1>>
    ELSE IF first_type = "blue+burgundy" /\ second_type = "black" THEN <<2>>
    ELSE IF first_type = "black" /\ second_type = "blue+burgundy" THEN <<3>>
    ELSE <<>>

\* "Fallback: assume position 0"
FallbackPosition == 0

\* What the function does with the run it has read
PositionOfCycle(cycle) ==
    IF Len(cycle) >= 2 /\ PositionOfPair(cycle[1], cycle[2]) # <<>>
    THEN PositionOfPair(cycle[1], cycle[2])[1]
    ELSE FallbackPosition

\* Fault: the test "if not pdf_schedule" is missing
Faulty_determine_cycle_position(current_week_date, schedule) ==
    IF InWindow(current_week_date, schedule) = {}
    THEN [error |-> AnchorNotFoundError, pdf_week_date |-> None, closest |-> <<>>,
          cycle |-> <<>>, position |-> None]
    ELSE LET nearest == NearestDate(current_week_date, InWindow(current_week_date, schedule))
             cycle == CycleFromPdf(nearest, schedule, 0)
         IN  [error |-> NoError, pdf_week_date |-> nearest,
              closest |-> ClosestDates(nearest, schedule, 0),
              cycle |-> cycle, position |-> PositionOfCycle(cycle)]

\* The whole function: the exception it raises, or the run it read and the position it returns
_determine_cycle_position(current_week_date, schedule) ==
    IF schedule = <<>>
    THEN [error |-> EmptyScheduleError, pdf_week_date |-> None, closest |-> <<>>,
          cycle |-> <<>>, position |-> None]
    ELSE IF InWindow(current_week_date, schedule) = {}
    THEN [error |-> AnchorNotFoundError, pdf_week_date |-> None, closest |-> <<>>,
          cycle |-> <<>>, position |-> None]
    ELSE LET nearest == NearestDate(current_week_date, InWindow(current_week_date, schedule))
             cycle == CycleFromPdf(nearest, schedule, 0)
         IN  [error |-> NoError, pdf_week_date |-> nearest,
              closest |-> ClosestDates(nearest, schedule, 0),
              cycle |-> cycle, position |-> PositionOfCycle(cycle)]

----------------------------------------------------------------------------
(* The directory page.  has_div: the div of class bin-dir-snip; has_para: its
   first p; week_text: the text of that p; week_start: the date strptime reads
   from the text before " to ", read only when week_is_date (the text has the
   format %A %d %B %Y); labels: the h4 texts of the li elements of the div; has_table: the
   table; rows: its tr elements, each with or without a th, and with the text
   of its td or None. *)

RECURSIVE SplitCount(_, _)
\* len(s.split(sep))
SplitCount(s, sep) ==
    LET hits == {i \in 1..(Len(s) - Len(sep) + 1) : SubSeq(s, i, i + Len(sep) - 1) = sep}
        first == CHOOSE i \in hits : \A j \in hits : i <= j
    IN  IF hits = {} THEN 1
        ELSE 1 + SplitCount(SubSeq(s, first + Len(sep), Len(s)), sep)

\* re.match(r'(Monday|...|Sunday)', schedule_text): the day name the text starts with
DayMatch(schedule_text) ==
    LET hits == {i \in 1..Len(DayNames) : StartsWith(schedule_text, DayNames[i])}
    IN  IF hits = {} THEN None ELSE DayNames[CHOOSE i \in hits : TRUE]

\* the loop over the rows of the table: the first day name matched
CollectionDay(rows) ==
    LET hits == {i \in 1..Len(rows) :
                    /\ rows[i].th
                    /\ rows[i].td # None
                    /\ DayMatch(Strip(rows[i].td)) # None}
    IN  IF hits = {} THEN None
        ELSE DayMatch(Strip(rows[CHOOSE i \in hits : \A j \in hits : i <= j].td))

\* Fault: a table without a weekday row is read as a Monday collection
Faulty_ParsePage(page) ==
    LET failed(msg) == [error |-> msg, current_week_start |-> None,
                        bins_this_week |-> {}, collection_day |-> None]
    IN  IF ~page.has_div THEN failed("Could not find bin collection info")
        ELSE IF ~page.has_para THEN failed("Could not find week information")
        ELSE IF SplitCount(Strip(page.week_text), " to ") # 2
             THEN failed("Unexpected week format")
        ELSE IF ~page.week_is_date
             THEN failed("ValueError: time data does not match format")
        ELSE IF ~page.has_table THEN failed("Could not find collection schedule table")
        ELSE [error |-> NoError,
              current_week_start |-> page.week_start,
              bins_this_week |-> {Lower(Strip(page.labels[i])) : i \in 1..Len(page.labels)},
              collection_day |-> IF CollectionDay(page.rows) = None THEN "Monday"
                                 ELSE CollectionDay(page.rows)]

\* Source.fetch up to "if not collection_day": the exception raised, or what was read
ParsePage(page) ==
    LET failed(msg) == [error |-> msg, current_week_start |-> None,
                        bins_this_week |-> {}, collection_day |-> None]
    IN  IF ~page.has_div THEN failed("Could not find bin collection info")
        ELSE IF ~page.has_para THEN failed("Could not find week information")
        ELSE IF SplitCount(Strip(page.week_text), " to ") # 2
             THEN failed("Unexpected week format")
        ELSE IF ~page.week_is_date
             THEN failed("ValueError: time data does not match format")
        ELSE IF ~page.has_table THEN failed("Could not find collection schedule table")
        ELSE IF CollectionDay(page.rows) = None
             THEN failed("Could not determine collection day")
        ELSE [error |-> NoError,
              current_week_start |-> page.week_start,
              bins_this_week |-> {Lower(Strip(page.labels[i])) : i \in 1..Len(page.labels)},
              collection_day |-> CollectionDay(page.rows)]

\* Fault: the weekday of the week start is not subtracted
Faulty_CurrentCollectionDate(week_start, day) == week_start + (day_map(day) % 7)

\* days_to_collection and current_collection_date of fetch
CurrentCollectionDate(week_start, day) ==
    week_start + ((day_map(day) - Weekday(week_start)) % 7)

----------------------------------------------------------------------------
(* The projection loop and the sort of fetch.  A Collection is a record of
   date, type and icon. *)

Collection(date, t, icon) == [date |-> date, type |-> t, icon |-> icon]

\* the bin types of the template
BinTypes == UNION {{phase[j] : j \in 1..Len(phase)} : phase \in {base_pattern[p] : p \in 1..Len(base_pattern)}}

\* bin_color = bin_type.split()[0], for each bin type of the template
BinColor == {<<bin_type, FirstWord(bin_type)>> : bin_type \in BinTypes}

\* the events of one week offset, in the order of bins_for_week
WeekEvents(first_date, pattern, icons, week_offset) ==
    LET collection_date == first_date + 7 * week_offset
        bins_for_week == pattern[(week_offset % Len(pattern)) + 1]
    IN  [j \in 1..Len(bins_for_week) |->
            Collection(collection_date, bins_for_week[j],
                       Get(icons, Get(BinColor, bins_for_week[j], ""), "mdi:trash-can"))]

RECURSIVE ProjectRange(_, _, _, _, _)
\* for week_offset in range(lo, hi): the events appended, in order (the range is
\* halved to keep the evaluation shallow)
ProjectRange(first_date, pattern, icons, lo, hi) ==
    IF lo >= hi THEN <<>>
    ELSE IF hi = lo + 1 THEN WeekEvents(first_date, pattern, icons, lo)
    ELSE ProjectRange(first_date, pattern, icons, lo, (lo + hi) \div 2)
         \o ProjectRange(first_date, pattern, icons, (lo + hi) \div 2, hi)

\* Fault: the priorities are taken in descending order
Faulty_get_sort_key(entry, order) ==
    <<entry.date, 0 - Get(order, IF entry.type # "" THEN Get(BinColor, entry.type, "") ELSE "", UnknownOrder)>>

\* get_sort_key of fetch, as <<date, sort_order>>
get_sort_key(entry, order) ==
    <<entry.date, Get(order, IF entry.type # "" THEN Get(BinColor, entry.type, "") ELSE "", UnknownOrder)>>

\* tuple comparison k1 <= k2
KeyLeq(k1, k2) == k1[1] < k2[1] \/ (k1[1] = k2[1] /\ k1[2] <= k2[2])

RECURSIVE InsertKeyed(_, _)
\* a keyed entry put after the last entry whose key is not greater (stable)
InsertKeyed(sorted, e) ==
    IF sorted = <<>> \/ KeyLeq(sorted[Len(sorted)][1], e[1])
    THEN Append(sorted, e)
    ELSE Append(InsertKeyed(SubSeq(sorted, 1, Len(sorted) - 1), e), sorted[Len(sorted)])

RECURSIVE InsertRange(_, _, _, _)
\* the keyed entries lo..hi put one after the other, in order, into sorted.  The
\* range is halved, and sorted is read before the descent, to keep the
\* evaluation shallow.
InsertRange(sorted, keyed, lo, hi) ==
    IF Len(sorted) >= 0 /\ lo > hi THEN sorted
    ELSE IF lo = hi THEN InsertKeyed(sorted, keyed[lo])
    ELSE InsertRange(InsertRange(sorted, keyed, lo, (lo + hi) \div 2),
                     keyed, (lo + hi) \div 2 + 1, hi)

\* list.sort(key=get_sort_key): stable, ascending
SortCollections(entries, order) ==
    LET keyed == [i \in 1..Len(entries) |-> <<get_sort_key(entries[i], order), entries[i]>>]
        sorted == InsertRange(<<>>, keyed, 1, Len(keyed))
    IN  [i \in 1..Len(sorted) |-> sorted[i][2]]

\* Fault: the loop starts at week offset 1
Faulty_ProjectAndSortWith(first_date, pattern, icons, order) ==
    SortCollections(ProjectRange(first_date, pattern, icons, 1, Horizon), order)

\* fetch from "collections = []" to "return collections", with the tables of the module
ProjectAndSortWith(first_date, pattern, icons, order) ==
    SortCollections(ProjectRange(first_date, pattern, icons, 0, Horizon), order)

\* Source.fetch from "collections = []" to "return collections"
ProjectAndSort(first_date, pattern) ==
    ProjectAndSortWith(first_date, pattern, ICON_MAP, SORT_ORDER)

----------------------------------------------------------------------------
(* What the council site can serve *)

\* The first week start the pages report; the week starts cover every weekday.
FirstDay == 739642
\* The most dated entries a calendar has.
MaxRun == 2

WeekStarts == FirstDay..(FirstDay + 6)

Page(week_start, labels, rows) ==
    [has_div |-> TRUE, has_para |-> TRUE,
     week_text |-> DayNames[Weekday(week_start) + 1] \o " 26 January 2026 to Friday 30 January 2026",
     week_is_date |-> TRUE, week_start |-> week_start,
     labels |-> labels, has_table |-> TRUE, rows |-> rows]

\* the table of a household collected on one weekday
DayRows(day) ==
    << [th |-> TRUE, td |-> None],
       [th |-> TRUE, td |-> " " \o day \o " (Fortnightly)"],
       [th |-> TRUE, td |-> day \o " (Every 4 weeks)"] >>

BlackLabels == <<"Black/Green - Non Recyclable Waste">>
BlueLabels == <<" Blue (paper and card)", "Burgundy - Food and garden ">>
GreyLabels == <<"Light Grey - Glass, cans and plastics", "Burgundy - Food and garden">>

GoodPages(week_starts, label_lists, days) ==
    {Page(d, labels, DayRows(day)) : d \in week_starts, labels \in label_lists, day \in days}

\* pages on which fetch raises
BadPages ==
    LET good == Page(FirstDay, BlackLabels, DayRows("Friday"))
    IN  { [good EXCEPT !.has_div = FALSE],
          [good EXCEPT !.has_para = FALSE],
          [good EXCEPT !.week_text = "Monday 26 January 2026"],
          [good EXCEPT !.week_text = "this week to next week", !.week_is_date = FALSE],
          [good EXCEPT !.has_table = FALSE],
          [good EXCEPT !.rows = << [th |-> TRUE, td |-> "Fortnightly"],
                                   [th |-> FALSE, td |-> "Friday"] >>],
          [good EXCEPT !.rows = << [th |-> TRUE, td |-> None],
                                   [th |-> TRUE, td |-> "Every Friday"] >>] }

Pages == GoodPages(WeekStarts, {BlackLabels, BlueLabels}, {"Monday", "Friday"}) \cup BadPages

\* the texts the calendar prints under a date
ClassTexts == {"Black bin", "Light GREY and Burgundy bins", "Blue and Brown bins"}

\* A calendar of dated entries, gap blank lines after each
RECURSIVE Calendar(_, _)
Calendar(entries, gap) ==
    IF entries = <<>> THEN <<>>
    ELSE <<DateLine(entries[1][1]), TextLine(entries[1][2])>>
         \o [i \in 1..gap |-> TextLine("")]
         \o Calendar(Tail(entries), gap)

\* n weekly entries from a first date on
WeeklyEntries(first, texts) == [i \in 1..Len(texts) |-> <<first + 7 * (i - 1), texts[i]>>]

FirstDates == {FirstDay - 70, FirstDay - 63, FirstDay, FirstDay + 182}

TextRuns == UNION {[1..n -> ClassTexts] : n \in 1..MaxRun}

\* calendars that yield no dated entry
EmptyDocs ==
    { <<>>,
      <<TextLine(" "), TextLine("")>>,
      <<TextLine("Black bin"), TextLine("Blue and Brown bins")>>,
      <<DateLine(FirstDay), TextLine("No collection"), DateLine(FirstDay + 7)>> }

Docs ==
    {Calendar(WeeklyEntries(first, texts), gap) :
        first \in FirstDates, texts \in TextRuns, gap \in {0, 3}}
    \cup EmptyDocs

\* the pdf_url argument: not passed, None, empty, or a URL
UrlArgs == {Missing, None, "", "https://www.southlanarkshire.gov.uk/calendar_2026.pdf"}

----------------------------------------------------------------------------
(* Source of southlanarkshire_gov_uk.py *)

Init ==
    /\ pc = "new"
    /\ error = NoError
    /\ web_page = <<>>
    /\ web_pdf = <<>>
    /\ pdf_url = None
    /\ current_week_start = None
    /\ bins_this_week = {}
    /\ collection_day = None
    /\ pdf_schedule = <<>>
    /\ cycle_from_pdf = <<>>
    /\ pdf_week_date = None
    /\ closest = <<>>
    /\ cycle_position = None
    /\ current_week_bins = None
    /\ pattern_cycle = <<>>
    /\ collections = <<>>

\* the exception of Source.__init__, NoError when it returns
InitError(url) ==
    IF url = Missing THEN "TypeError: missing 1 required positional argument: 'pdf_url'"
    ELSE IF url = None \/ url = "" THEN "ValueError: pdf_url is required"
    ELSE NoError

\* Source.__init__
Construct ==
    /\ pc = "new"
    /\ \E url \in UrlArgs :
        /\ pdf_url' = url
        /\ error' = InitError(url)
        /\ pc' = IF InitError(url) = NoError THEN "ready" ELSE "failed"
    /\ UNCHANGED <<web_page, web_pdf, current_week_start, bins_this_week, collection_day,
                   pdf_schedule, cycle_from_pdf, pdf_week_date, closest, cycle_position, current_week_bins,
                   pattern_cycle, collections>>

\* Source.fetch: the page is requested and read
FetchPageFrom(pages) ==
    /\ pc = "ready"
    /\ \E page \in pages :
        LET r == ParsePage(page)
        IN  /\ web_page' = <<page>>
            /\ error' = r.error
            /\ pc' = IF r.error = NoError THEN "page" ELSE "failed"
            /\ current_week_start' = r.current_week_start
            /\ bins_this_week' = r.bins_this_week
            /\ collection_day' = r.collection_day
    /\ UNCHANGED <<web_pdf, pdf_url, pdf_schedule, cycle_from_pdf, pdf_week_date, closest, cycle_position,
                   current_week_bins, pattern_cycle, collections>>

FetchPage == FetchPageFrom(Pages)

\* Source.fetch: pdf_schedule = self._parse_pdf_schedule()
ParsePdfScheduleFrom(docs) ==
    /\ pc = "page"
    /\ \E doc \in docs :
        /\ web_pdf' = <<doc>>
        /\ pdf_schedule' = _parse_pdf_schedule(doc)
    /\ pc' = "parsed"
    /\ UNCHANGED <<error, web_page, pdf_url, current_week_start, bins_this_week,
                   collection_day, cycle_from_pdf, pdf_week_date, closest, cycle_position, current_week_bins,
                   pattern_cycle, collections>>

ParsePdfSchedule == ParsePdfScheduleFrom(Docs)

\* Source.fetch: cycle_position = self._determine_cycle_position(current_week_start, pdf_schedule)
DetermineCyclePosition ==
    /\ pc = "parsed"
    /\ LET r == _determine_cycle_position(current_week_start, pdf_schedule)
       IN  /\ error' = r.error
           /\ pc' = IF r.error = NoError THEN "positioned" ELSE "failed"
           /\ cycle_from_pdf' = r.cycle
           /\ pdf_week_date' = r.pdf_week_date
           /\ closest' = r.closest
           /\ cycle_position' = r.position
    /\ UNCHANGED <<web_page, web_pdf, pdf_url, current_week_start, bins_this_week,
                   collection_day, pdf_schedule, current_week_bins, pattern_cycle,
                   collections>>

\* Source.fetch: the pattern, the projection loop, the sort and the return
Project ==
    /\ pc = "positioned"
    /\ pattern_cycle' = _get_pattern_from_cycle_position(cycle_position)
    /\ collections' = ProjectAndSort(CurrentCollectionDate(current_week_start, collection_day),
                                     _get_pattern_from_cycle_position(cycle_position))
    /\ pc' = "returned"
    /\ UNCHANGED <<error, web_page, web_pdf, pdf_url, current_week_start, bins_this_week,
                   collection_day, pdf_schedule, cycle_from_pdf, pdf_week_date, closest, cycle_position,
                   current_week_bins>>

Next == Construct \/ FetchPage \/ ParsePdfSchedule \/ DetermineCyclePosition \/ Project

Spec == Init /\ [][Next]_vars

(* The same program on pages of every week start and collection weekday, with
   calendars of two weekly entries from the first week on *)

DatePages == GoodPages(WeekStarts, {BlackLabels}, Range(DayNames)) \cup BadPages

DateDocs == {Calendar(WeeklyEntries(FirstDay, texts), 3) : texts \in [1..2 -> ClassTexts]}

DatesFetchPage == FetchPageFrom(DatePages)

DatesParsePdfSchedule == ParsePdfScheduleFrom(DateDocs)

NextDates ==
    Construct \/ DatesFetchPage \/ DatesParsePdfSchedule \/ DetermineCyclePosition \/ Project

SpecDates == Init /\ [][NextDates]_vars

(* The same program on calendars that follow the template: weekly entries from
   any phase of the template on, the first entry some weeks before or after
   FirstDay, with or without one week left out *)

\* The weeks a calendar that follows the template has.
TemplateWeeks == 5

\* the texts the calendar prints for the phases of the template
TemplateTexts == <<"Black bin", "Light GREY and Burgundy bins", "Black bin", "Blue and Brown bins">>

\* weekly entries from a first date on, the first at phase r of the template
TemplateEntries(first, r) ==
    [i \in 1..TemplateWeeks |->
        <<first + 7 * (i - 1), TemplateTexts[((r + i - 1) % Len(TemplateTexts)) + 1]>>]

\* the entries without the m-th; all of them for m = 0
Without(entries, m) ==
    IF m = 0 THEN entries
    ELSE SubSeq(entries, 1, m - 1) \o SubSeq(entries, m + 1, Len(entries))

\* the weeks from FirstDay to the first entry of a calendar
Shifts == {-12, -3, -2, -1, 0, 1, 2, 3, 26}

AnchorDocs ==
    {Calendar(Without(TemplateEntries(FirstDay + 7 * s, r), m), 3) :
        s \in Shifts, r \in 0..(Len(TemplateTexts) - 1), m \in 0..TemplateWeeks}

AnchorPages == GoodPages(WeekStarts, {BlackLabels}, {"Friday"}) \cup BadPages

AnchorFetchPage == FetchPageFrom(AnchorPages)

AnchorParsePdfSchedule == ParsePdfScheduleFrom(AnchorDocs)

NextAnchor ==
    Construct \/ AnchorFetchPage \/ AnchorParsePdfSchedule \/ DetermineCyclePosition \/ Project

SpecAnchor == Init /\ [][NextAnchor]_vars

(* Source.fetch as a function of what the site serves: the exception raised, or
   the list returned.  The bins of this week read from the page are not used. *)

\* Fault: the pattern is rotated on the bins the page reports for this week
Faulty_fetch(page, doc) ==
    LET p == ParsePage(page)
        r == _determine_cycle_position(p.current_week_start, _parse_pdf_schedule(doc))
        week_bins == _identify_bin_combination(p.bins_this_week)
        rotation == IF week_bins = "grey+burgundy" THEN 1
                    ELSE IF week_bins = "blue+burgundy" THEN 3 ELSE 0
    IN  IF p.error # NoError THEN [error |-> p.error, collections |-> <<>>]
        ELSE IF r.error # NoError THEN [error |-> r.error, collections |-> <<>>]
        ELSE [error |-> NoError,
              collections |->
                  ProjectAndSort(CurrentCollectionDate(p.current_week_start, p.collection_day),
                                 _get_pattern_from_cycle_position(rotation))]

\* Source.fetch
fetch(page, doc) ==
    LET p == ParsePage(page)
        r == _determine_cycle_position(p.current_week_start, _parse_pdf_schedule(doc))
    IN  IF p.error # NoError THEN [error |-> p.error, collections |-> <<>>]
        ELSE IF r.error # NoError THEN [error |-> r.error, collections |-> <<>>]
        ELSE [error |-> NoError,
              collections |->
                  ProjectAndSort(CurrentCollectionDate(p.current_week_start, p.collection_day),
                                 _get_pattern_from_cycle_position(r.position))]

----------------------------------------------------------------------------
(* Source of test_southlanarkshire.py: single-observation mode *)

SINGLE_ICON_MAP ==
    { <<"Black", "mdi:trash-can">>, <<"Blue", "mdi:recycle">>,
      <<"Light", "mdi:bottle-soda">>, <<"Burgundy", "mdi:flower">> }

SINGLE_SORT_ORDER == { <<"Blue", 1>>, <<"Light", 2>>, <<"Burgundy", 3>>, <<"Black", 4>> }

DefaultPdfUrl == "https://www.southlanarkshire.gov.uk/download/downloads/id/18301/calendar_2026.pdf"

\* any(kw in b for b in bins_this_week_set), for one of the keywords kws
SingleHasAny(bins_this_week_set, kws) ==
    \E b \in bins_this_week_set : \E kw \in kws : Contains(b, kw)

\* Source._identify_bin_combination of test_southlanarkshire.py
single_identify_bin_combination(bins_this_week_set) ==
    LET has_black == SingleHasAny(bins_this_week_set, {"black", "green"})
        has_blue == SingleHasAny(bins_this_week_set, {"blue"})
        has_grey == SingleHasAny(bins_this_week_set, {"grey", "gray"})
        has_burgundy == SingleHasAny(bins_this_week_set, {"burgundy"})
    IN  IF has_black THEN "black"
        ELSE IF has_blue /\ has_burgundy THEN "blue+burgundy"
        ELSE IF has_blue THEN "blue+burgundy"
        ELSE IF has_grey /\ has_burgundy THEN "grey+burgundy"
        ELSE IF has_grey THEN "grey+burgundy"
        ELSE "black"

\* Fault: the blue+burgundy branch returns the pattern of the black branch
Faulty_single_determine_pattern_cycle(week_bins) ==
    IF week_bins = "grey+burgundy"
    THEN <<grey_burgundy_bins, black_bins, blue_burgundy_bins, black_bins>>
    ELSE <<black_bins, grey_burgundy_bins, black_bins, blue_burgundy_bins>>

\* Source._determine_pattern_cycle of test_southlanarkshire.py
single_determine_pattern_cycle(week_bins) ==
    IF week_bins = "black"
    THEN <<black_bins, grey_burgundy_bins, black_bins, blue_burgundy_bins>>
    ELSE IF week_bins = "grey+burgundy"
    THEN <<grey_burgundy_bins, black_bins, blue_burgundy_bins, black_bins>>
    ELSE IF week_bins = "blue+burgundy"
    THEN <<blue_burgundy_bins, black_bins, grey_burgundy_bins, black_bins>>
    ELSE <<black_bins, grey_burgundy_bins, black_bins, blue_burgundy_bins>>

SinglePages ==
    GoodPages(WeekStarts, {BlackLabels, BlueLabels, GreyLabels, <<>>, <<"Blue (paper and card)">>},
              Range(DayNames))
    \cup BadPages

\* Source.__init__ of test_southlanarkshire.py: pdf_url or the default
SingleConstruct ==
    /\ pc = "new"
    /\ \E url \in UrlArgs :
        pdf_url' = IF url \in {Missing, None, ""} THEN DefaultPdfUrl ELSE url
    /\ pc' = "ready"
    /\ UNCHANGED <<error, web_page, web_pdf, current_week_start, bins_this_week,
                   collection_day, pdf_schedule, cycle_from_pdf, pdf_week_date, closest, cycle_position,
                   current_week_bins, pattern_cycle, collections>>

\* Source.fetch of test_southlanarkshire.py: the page is requested and read, and the
\* bins of this week classified
SingleFetchPage ==
    /\ pc = "ready"
    /\ \E page \in SinglePages :
        LET r == ParsePage(page)
        IN  /\ web_page' = <<page>>
            /\ error' = r.error
            /\ pc' = IF r.error = NoError THEN "page" ELSE "failed"
            /\ current_week_start' = r.current_week_start
            /\ bins_this_week' = r.bins_this_week
            /\ collection_day' = r.collection_day
            /\ current_week_bins' = IF r.error = NoError
                                    THEN single_identify_bin_combination(r.bins_this_week)
                                    ELSE None
    /\ UNCHANGED <<web_pdf, pdf_url, pdf_schedule, cycle_from_pdf, pdf_week_date, closest, cycle_position,
                   pattern_cycle, collections>>

\* Source.fetch of test_southlanarkshire.py: the pattern, the projection loop, the sort
\* and the return
SingleProject ==
    /\ pc = "page"
    /\ pattern_cycle' = single_determine_pattern_cycle(current_week_bins)
    /\ collections' =
          ProjectAndSortWith(CurrentCollectionDate(current_week_start, collection_day),
                             single_determine_pattern_cycle(current_week_bins),
                             SINGLE_ICON_MAP, SINGLE_SORT_ORDER)
    /\ pc' = "returned"
    /\ UNCHANGED <<error, web_page, web_pdf, pdf_url, current_week_start, bins_this_week,
                   collection_day, pdf_schedule, cycle_from_pdf, pdf_week_date, closest, cycle_position,
                   current_week_bins>>

NextSingle == SingleConstruct \/ SingleFetchPage \/ SingleProject

SpecSingle == Init /\ [][NextSingle]_vars

----------------------------------------------------------------------------
(* Source._identify_bin_combination on its own, applied to every set of labels
   of a pool *)

LabelPool ==
    { "Black/Green - Non Recyclable Waste", "GREEN bin", "Blue (paper and card)", "BLUE",
      "Light Grey - Glass, cans and plastics", "gray", "Burgundy - Food and garden",
      "Brown", "Food caddy" }

InitClassify ==
    /\ pc = "classify"
    /\ error = NoError
    /\ web_page = <<>>
    /\ web_pdf = <<>>
    /\ pdf_url = None
    /\ current_week_start = None
    /\ bins_this_week \in SUBSET LabelPool
    /\ collection_day = None
    /\ pdf_schedule = <<>>
    /\ cycle_from_pdf = <<>>
    /\ pdf_week_date = None
    /\ closest = <<>>
    /\ cycle_position = None
    /\ current_week_bins = None
    /\ pattern_cycle = <<>>
    /\ collections = <<>>

Classify ==
    /\ pc = "classify"
    /\ current_week_bins' = _identify_bin_combination(bins_this_week)
    /\ pc' = "classified"
    /\ UNCHANGED <<error, web_page, web_pdf, pdf_url, current_week_start, bins_this_week,
                   collection_day, pdf_schedule, cycle_from_pdf, pdf_week_date, closest, cycle_position,
                   pattern_cycle, collections>>

NextClassify == Classify

SpecClassify == InitClassify /\ [][NextClassify]_vars

----------------------------------------------------------------------------
(* Properties *)

\* the combination class of a phase of a pattern: its labels, normalized
ClassOfPhase(phase) == _identify_bin_combination(Range(phase))

\* the four adjacent pairs of the template
AdjacentPairs ==
    { <<"black", "grey+burgundy">>, <<"grey+burgundy", "black">>,
      <<"black", "blue+burgundy">>, <<"blue+burgundy", "black">> }

\* the run read from the calendar begins with an adjacent pair of the template
RunIsAdjacent == Len(cycle_from_pdf) >= 2 /\ <<cycle_from_pdf[1], cycle_from_pdf[2]>> \in AdjacentPairs

\* the types of the returned events of one date, as a set
TypesOn(date) == {collections[i].type : i \in {j \in 1..Len(collections) : collections[j].date = date}}

\* the number of returned events of one date
CountOn(date) == Cardinality({j \in 1..Len(collections) : collections[j].date = date})

\* the date of the returned events of week offset 0
FirstDate == collections[1].date

\* C1: historical-anchor round trip.  Whenever the run read from the calendar
\* begins with one of the four adjacent pairs of the template, the rotated
\* template has the class of the anchor entry at phase 0 and the class of the
\* following entry at phase 1.  (Refuted: blue+burgundy then black gives
\* position 2, whose rotation begins black, blue+burgundy.)
C1_AnchorRoundTrip ==
    (pc = "returned" /\ RunIsAdjacent) =>
        /\ ClassOfPhase(pattern_cycle[1]) = cycle_from_pdf[1]
        /\ ClassOfPhase(pattern_cycle[2]) = cycle_from_pdf[2]

\* C2: no guessed phase.  A phase index is returned, and events projected, only
\* when the run read from the calendar has two entries that are an adjacent pair
\* of the template.  (Refuted: any other run gives position 0.)
C2_NoGuessedPhase ==
    pc \in {"positioned", "returned"} => RunIsAdjacent

\* C3: the phase index returned is in 0..3, and for every week offset k of the
\* 52 the labels projected for week k are exactly those of phase (i + k) mod 4
\* of the base template.
C3_PhaseProjection ==
    /\ pc \in {"positioned", "returned"} => cycle_position \in 0..3
    /\ pc = "returned" =>
          \A k \in 0..51 :
              TypesOn(FirstDate + 7 * k) = Range(base_pattern[((cycle_position + k) % 4) + 1])

\* C3 witness: events were returned from a phase other than 0
C3_Witness == pc = "returned" /\ cycle_position = 3 /\ Len(collections) > 0

\* C4: absence of the calendar is a valid state.  With pdf_url not passed, None
\* or empty, constructing Source and fetching does not fail.  (Refuted: the
\* constructor raises.)
C4_AbsenceIsValid ==
    (pc # "new" /\ pdf_url \in {Missing, None, ""}) => pc # "failed"

\* C5: AnchorNotFound.  When the schedule is not empty and none of its dates d
\* has current_week - 60 <= d <= current_week + 180, _determine_cycle_position
\* raises, the projection loop is not entered and no event is produced.
C5_AnchorNotFound ==
    ( /\ pc \in {"positioned", "returned", "failed"}
      /\ pdf_schedule # <<>>
      /\ \A i \in 1..Len(pdf_schedule) :
            ~(current_week_start - 60 <= pdf_schedule[i][1]
              /\ pdf_schedule[i][1] <= current_week_start + 180) )
    => /\ pc = "failed"
       /\ error = AnchorNotFoundError
       /\ cycle_position = None
       /\ pattern_cycle = <<>>
       /\ collections = <<>>

\* C5 witness: a schedule with entries, none in the window, after detection
C5_Witness ==
    /\ pc = "failed"
    /\ pdf_schedule # <<>>
    /\ \A i \in 1..Len(pdf_schedule) :
          ~(current_week_start - 60 <= pdf_schedule[i][1]
            /\ pdf_schedule[i][1] <= current_week_start + 180)

\* a calendar has no date line with a bin keyword in the four lines after it
NoDatedEntry(doc) ==
    \A i \in 1..Len(doc) :
        doc[i].kind = "date" =>
            \A j \in (i + 1)..Min(i + 4, Len(doc)) :
                \A kw \in {"black", "green", "blue", "grey", "gray", "burgundy", "brown"} :
                    ~Contains(Lower(doc[j].text), kw)

\* C6: EmptyHistoricalDocument.  When the calendar was supplied and yields no
\* dated entry, fetch fails with the empty-schedule error and returns no event;
\* that error is raised in no other case: not when entries exist and none is in
\* the window, and not when no calendar was supplied.
C6_EmptyDocument ==
    /\ (pc \in {"positioned", "returned", "failed"} /\ web_pdf # <<>> /\ NoDatedEntry(web_pdf[1]))
          => (pc = "failed" /\ error = EmptyScheduleError /\ collections = <<>>)
    /\ error = EmptyScheduleError
          => (web_pdf # <<>> /\ NoDatedEntry(web_pdf[1]) /\ pdf_schedule = <<>>
              /\ pdf_url \notin {Missing, None, ""})
    /\ (pc = "failed" /\ pdf_schedule # <<>>) => error = AnchorNotFoundError
    /\ (pc = "failed" /\ pdf_url \in {Missing, None, ""})
          => error \notin {EmptyScheduleError, AnchorNotFoundError}

\* C6 witness: a calendar with date lines and no bin keyword near them was received
\* and detection has run
C6_Witness ==
    /\ pc = "failed"
    /\ web_pdf # <<>>
    /\ \E i \in 1..Len(web_pdf[1]) : web_pdf[1][i].kind = "date"
    /\ NoDatedEntry(web_pdf[1])

\* the canonical categories of a set of labels (the normalized set)
Normalized(labels) == UNION {BinsOfLine(b) : b \in labels}

\* the three combination classes as category sets
ClassSets == { {"black"}, {"blue", "burgundy"}, {"grey", "burgundy"} }

\* C7 as stated: the class whose category set equals the normalized set is
\* returned, and a normalized set equal to none of the three classes gives the
\* default black.  (Refuted: {blue, grey, burgundy} gives blue+burgundy.)
C7_ExactClassOrDefault ==
    pc = "classified" =>
        LET n == Normalized(bins_this_week)
        IN  /\ n = {"black"} => current_week_bins = "black"
            /\ n = {"blue", "burgundy"} => current_week_bins = "blue+burgundy"
            /\ n = {"grey", "burgundy"} => current_week_bins = "grey+burgundy"
            /\ n \notin ClassSets => current_week_bins = "black"

\* C7 amended: the result is always one of the three classes; it is black exactly
\* when the normalized set contains black, or lacks burgundy, or has neither blue
\* nor grey; blue+burgundy exactly when it has blue and burgundy and no black
\* (with or without grey); grey+burgundy exactly when it has grey and burgundy
\* and neither black nor blue.  Each class set maps to its class.
C7_Classification ==
    pc = "classified" =>
        LET n == Normalized(bins_this_week)
        IN  /\ current_week_bins \in Classes
            /\ current_week_bins = "black"
                  <=> ("black" \in n \/ "burgundy" \notin n \/ ("blue" \notin n /\ "grey" \notin n))
            /\ current_week_bins = "blue+burgundy"
                  <=> ("black" \notin n /\ "blue" \in n /\ "burgundy" \in n)
            /\ current_week_bins = "grey+burgundy"
                  <=> ("black" \notin n /\ "blue" \notin n /\ "grey" \in n /\ "burgundy" \in n)
            /\ n = {"black"} => current_week_bins = "black"
            /\ n = {"blue", "burgundy"} => current_week_bins = "blue+burgundy"
            /\ n = {"grey", "burgundy"} => current_week_bins = "grey+burgundy"

\* C7 witness: blue, grey and burgundy labels in mixed case were classified
C7_Witness ==
    /\ pc = "classified"
    /\ Normalized(bins_this_week) = {"blue", "grey", "burgundy"}
    /\ "BLUE" \in bins_this_week
    /\ current_week_bins = "blue+burgundy"

\* the dates of the returned events
DateSet == {collections[i].date : i \in 1..Len(collections)}

\* the date of the returned events with k earlier dates: that of week offset k
NthDate(k) == CHOOSE d \in DateSet : Cardinality({e \in DateSet : e < d}) = k

\* the template rotated by r phases
Rotated(r) == [i \in 1..Len(base_pattern) |-> base_pattern[((i - 1 + r) % Len(base_pattern)) + 1]]

\* C8: single-observation mode.  The pattern is a rotation of the template with
\* the observed class at phase 0; for observed {black} and Friday the weeks 0..3
\* carry black, grey+burgundy, black, blue+burgundy, each on the Friday of the
\* seven days of its week; for observed {blue, burgundy} week 0 is blue+burgundy
\* and week 1 is black.
C8_SingleObservation ==
    pc = "returned" =>
        /\ current_week_bins \in Classes
        /\ \E r \in 0..3 : pattern_cycle = Rotated(r)
        /\ ClassOfPhase(pattern_cycle[1]) = current_week_bins
        /\ (Normalized(bins_this_week) = {"black"} /\ collection_day = "Friday") =>
              \A k \in 0..3 :
                  /\ TypesOn(NthDate(k)) = Range(base_pattern[k + 1])
                  /\ Weekday(NthDate(k)) = 4
                  /\ current_week_start + 7 * k <= NthDate(k)
                  /\ NthDate(k) <= current_week_start + 7 * k + 6
        /\ Normalized(bins_this_week) = {"blue", "burgundy"} =>
              /\ TypesOn(NthDate(0)) = Range(blue_burgundy_bins)
              /\ TypesOn(NthDate(1)) = Range(black_bins)

\* C8 witness: events returned for observed {blue, burgundy}
C8_Witness ==
    /\ pc = "returned"
    /\ Normalized(bins_this_week) = {"blue", "burgundy"}
    /\ current_week_bins = "blue+burgundy"
    /\ collection_day = "Friday"

\* C9 as stated: the events of week offset k are dated Monday(d) + 7k + (days from
\* Monday to w), Monday(d) the Monday of the calendar week of the week start d.
\* (Refuted: for a week start later in its week than w the events are a week later.)
C9_MondayBasedDates ==
    pc = "returned" =>
        DateSet = {(current_week_start - Weekday(current_week_start)) + 7 * k
                       + day_map(collection_day) : k \in 0..51}

\* C9 amended: the events of week offset k are dated d + ((w - weekday(d)) mod 7) + 7k,
\* the first day of weekday w on or after the week start d, plus k weeks; so every
\* event falls on weekday w, the dates of consecutive offsets are 7 days apart, and
\* the dates are Monday(d) + 7k + w whenever weekday(d) <= w (so for every Monday d).
C9_EventDates ==
    pc = "returned" =>
        LET d == current_week_start
            w == day_map(collection_day)
        IN  /\ DateSet = {d + ((w - Weekday(d)) % 7) + 7 * k : k \in 0..51}
            /\ \A i \in 1..Len(collections) : Weekday(collections[i].date) = w
            /\ \A k \in 0..51 :
                  TypesOn(d + ((w - Weekday(d)) % 7) + 7 * k) = Range(pattern_cycle[(k % 4) + 1])
            /\ \A e \in DateSet : e = FirstDate \/ e - 7 \in DateSet
            /\ \A e \in DateSet : e >= FirstDate
            /\ Weekday(d) <= w => DateSet = {(d - Weekday(d)) + 7 * k + w : k \in 0..51}

\* C9 witness: events returned for a week start later in its week than the collection day
C9_Witness ==
    /\ pc = "returned"
    /\ Weekday(current_week_start) > day_map(collection_day)
    /\ Len(collections) > 0

\* C10: Scenario D.  A successful fetch returns events on exactly 52 dates, each
\* date with 1 or 2 events and no (date, type) pair twice, between 52 and 104
\* events in all.
C10_ScenarioD ==
    pc = "returned" =>
        /\ Cardinality(DateSet) = 52
        /\ \A d \in DateSet : CountOn(d) \in {1, 2} /\ CountOn(d) = Cardinality(TypesOn(d))
        /\ 52 <= Len(collections)
        /\ Len(collections) <= 104

\* C10 witness: a fetch returned events, some dates with one and some with two
C10_Witness ==
    /\ pc = "returned"
    /\ Len(collections) = 78
    /\ \E d \in DateSet : CountOn(d) = 1
    /\ \E d \in DateSet : CountOn(d) = 2

\* the priority of a bin type in the ranking: Blue 1, Light Grey 2, Burgundy 3,
\* Black/Green 4, any other first word 99
Priority(t) ==
    IF StartsWith(t, "Blue") THEN 1
    ELSE IF StartsWith(t, "Light Grey") THEN 2
    ELSE IF StartsWith(t, "Burgundy") THEN 3
    ELSE IF StartsWith(t, "Black") \/ StartsWith(t, "Green") THEN 4
    ELSE 99

\* the events of the projection loop of the run, before the sort
Projected ==
    ProjectRange(CurrentCollectionDate(current_week_start, collection_day),
                 pattern_cycle, ICON_MAP, 0, Horizon)

\* the place of an event in a list
PlaceIn(seq, e) == CHOOSE i \in 1..Len(seq) : seq[i] = e

\* C11: ranking.  The list returned ascends by date and, within a date, by the
\* priority Blue < Light Grey < Burgundy < Black/Green < other; it has exactly the
\* projected events, events of equal date and priority in their projection
\* order; sorting it again leaves it unchanged.
C11_Ranking ==
    pc = "returned" =>
        LET n == Len(collections)
            projected == Projected
        IN  /\ \A i \in 1..(n - 1) :
                  \/ collections[i].date < collections[i + 1].date
                  \/ /\ collections[i].date = collections[i + 1].date
                     /\ Priority(collections[i].type) <= Priority(collections[i + 1].type)
            /\ n = Len(projected)
            /\ Range(collections) = Range(projected)
            /\ \A i \in 1..(n - 1) :
                  ( /\ collections[i].date = collections[i + 1].date
                    /\ Priority(collections[i].type) = Priority(collections[i + 1].type) )
                  => PlaceIn(projected, collections[i]) < PlaceIn(projected, collections[i + 1])
            /\ SortCollections(collections, SORT_ORDER) = collections

\* C11 witness: a returned list with two events on one date, Light Grey before Burgundy,
\* and a Black/Green event on the date before
C11_Witness ==
    /\ pc = "returned"
    /\ \E i \in 2..(Len(collections) - 1) :
          /\ collections[i].date = collections[i + 1].date
          /\ Priority(collections[i].type) = 2
          /\ Priority(collections[i + 1].type) = 3
          /\ Priority(collections[i - 1].type) = 4
          /\ collections[i - 1].date < collections[i].date

\* the lists of labels a page can report for this week other than those it reports
OtherLabels(page) == {BlackLabels, BlueLabels, GreyLabels, <<>>} \ {page.labels}

\* C12: historical-anchor precedence.  The list returned is the one fetch returns
\* for the same calendar, week start and weekday on any page that reports other
\* bins for this week.
C12_AnchorPrecedence ==
    pc = "returned" =>
        /\ fetch(web_page[1], web_pdf[1]).collections = collections
        /\ \A labels \in OtherLabels(web_page[1]) :
              LET other == fetch([web_page[1] EXCEPT !.labels = labels], web_pdf[1])
              IN  other.error = NoError /\ other.collections = collections

\* C12 witness: events returned from a calendar whose anchor entry is not the
\* class of the bins the page reports for this week
C12_Witness ==
    /\ pc = "returned"
    /\ bins_this_week # {}
    /\ cycle_from_pdf[1] = "blue+burgundy"
    /\ _identify_bin_combination(bins_this_week) = "black"
    /\ Range(pattern_cycle[1]) = Range(black_bins)

\* a page lacks the bin-collection block, the week paragraph, a week text with
\* " to ", the table, or any row whose cell starts with a weekday name
PageLacks(page) ==
    \/ ~page.has_div
    \/ ~page.has_para
    \/ ~Contains(page.week_text, " to ")
    \/ ~page.has_table
    \/ ~\E i \in 1..Len(page.rows) :
            /\ page.rows[i].td # None
            /\ \E k \in 1..Len(DayNames) : StartsWith(Strip(page.rows[i].td), DayNames[k])

\* C13: MissingScheduleData.  On such a page fetch fails with an error of the
\* page, returns no event, and the calendar is neither requested nor parsed.
C13_MissingScheduleData ==
    (web_page # <<>> /\ PageLacks(web_page[1])) =>
        /\ pc = "failed"
        /\ error \notin {NoError, EmptyScheduleError, AnchorNotFoundError}
        /\ collections = <<>>
        /\ web_pdf = <<>>
        /\ pdf_schedule = <<>>
        /\ cycle_position = None

\* C13 witness: fetch has read a page whose table has no row for a weekday
C13_Witness ==
    /\ pc = "failed"
    /\ web_page # <<>>
    /\ web_page[1].has_div /\ web_page[1].has_para /\ web_page[1].has_table
    /\ Contains(web_page[1].week_text, " to ")
    /\ PageLacks(web_page[1])

\* the classes of the phases of the template
TemplateClasses == [p \in 1..Len(base_pattern) |-> ClassOfPhase(base_pattern[p])]

\* the entries of a schedule are whole weeks apart and follow the template from
\* some phase on
FollowsTemplate(schedule) ==
    /\ schedule # <<>>
    /\ \E r \in 0..(Len(TemplateClasses) - 1) :
          \A i \in 1..Len(schedule) :
              /\ (schedule[i][1] - schedule[1][1]) % 7 = 0
              /\ schedule[i][2] =
                    TemplateClasses[((r + (schedule[i][1] - schedule[1][1]) \div 7)
                                          % Len(TemplateClasses)) + 1]

\* C14: phase of the current week, not of the anchor.  For a calendar that follows
\* the template, the class projected for week offset k is the class the calendar
\* gives for the week k weeks after the current week, for every k for which it
\* has an entry.  (Refuted: the phase of the anchor is given to the current week.)
C14_CurrentWeekPhase ==
    (pc = "returned" /\ FollowsTemplate(pdf_schedule)) =>
        \A k \in 0..(Horizon - 1) :
            DictHas(pdf_schedule, current_week_start + 7 * k) =>
                ClassOfPhase(pattern_cycle[(k % Len(pattern_cycle)) + 1])
                    = DictGet(pdf_schedule, current_week_start + 7 * k)

\* C15: anchor selection.  The anchor is an entry date of the schedule within 60
\* days before and 180 days after the current week, both inclusive; no entry in
\* the window is nearer to the current week, and of two equally near it is the
\* earlier; the run begins with its class.
C15_AnchorSelection ==
    pc \in {"positioned", "returned"} =>
        /\ DictHas(pdf_schedule, pdf_week_date)
        /\ current_week_start - 60 <= pdf_week_date
        /\ pdf_week_date <= current_week_start + 180
        /\ \A i \in 1..Len(pdf_schedule) :
              LET e == pdf_schedule[i][1]
              IN  (current_week_start - 60 <= e /\ e <= current_week_start + 180) =>
                      \/ Abs(pdf_week_date - current_week_start) < Abs(e - current_week_start)
                      \/ /\ Abs(pdf_week_date - current_week_start) = Abs(e - current_week_start)
                         /\ pdf_week_date <= e
        /\ cycle_from_pdf[1] = DictGet(pdf_schedule, pdf_week_date)

\* C15 witness: an anchor chosen with a later entry equally near the current week
C15_Witness ==
    /\ pc \in {"positioned", "returned"}
    /\ pdf_week_date < current_week_start
    /\ DictHas(pdf_schedule, 2 * current_week_start - pdf_week_date)

\* C16: run reconstruction.  The i-th element of the run (i = 0..3) is the class
\* of the entry for the week i weeks after the anchor; each element comes from an
\* entry dated later than that of the element before, so that no entry is used
\* twice and no neighbouring week stands for a missing one.  (Refuted: an entry
\* 7 days from a missing week is taken in its place.)
C16_RunReconstruction ==
    pc \in {"positioned", "returned"} =>
        /\ Len(closest) = Len(cycle_from_pdf)
        /\ \A i \in 1..Len(closest) :
              /\ cycle_from_pdf[i] = DictGet(pdf_schedule, closest[i])
              /\ Abs(closest[i] - (pdf_week_date + 7 * (i - 1))) < 7
        /\ \A i \in 1..(Len(closest) - 1) : closest[i] < closest[i + 1]

====
